---- MODULE Spec2Model ----
(***************************************************************************)
(* simple-pubsub: an in-process publish/subscribe bus driving the stock    *)
(* levels of three vending machines.                                       *)
(*                                                                         *)
(* Two versions of the subscribers are modelled: the one of src/app.ts,    *)
(* which mutates the Machine objects directly, and the final one of        *)
(* src/unnamed/part_000 (lines 150-465), which goes through                *)
(* MachineRepository.  The variable `version` says which one runs.         *)
(* Lines 1-148 of part_000 are the unfinished starting skeleton (publish   *)
(* with Array.every, no unsubscribe) and are not modelled.                 *)
(*                                                                         *)
(* subscribe, unsubscribe and publish are operators on the registry; the   *)
(* main program is the state machine: it registers, makes further          *)
(* subscribe/unsubscribe calls, assembles a batch and drains it, one       *)
(* iteration of the do-while loop per step.  A throw out of a handler      *)
(* leaves the loop and the program (pc = "fault").                         *)
(***************************************************************************)
EXTENDS Integers, Sequences, FiniteSets, TLC

\* ------------------------------------------------------------------ bounds
\* Number of subscribe/unsubscribe calls the caller makes besides the four
\* registrations of the main program.
MaxOps == 2
\* Length of a batch of events the caller writes by hand (the literal test
\* batch, kept whole, has five).
MaxBatch == 2
\* Number of events taken from eventGenerator (the main program takes
\* five).  Generated events sell at most 2 and refill at least 3, so a
\* machine starting at 10 meets the threshold only after four sales.
MaxGenerated == 1

\* --------------------------------------------------------------- constants
LOW_STOCK_WARNING_THRESHOLD == 3
\* class Machine { public stockLevel = 10; ... }
InitialStockLevel == 10

SALE == "sale"
REFIL == "refil"
LOW_STOCK_WARNING == "low_stock_warning"
STOCK_LEVEL_OK == "stock_level_ok"
EVENT_TYPE == {SALE, REFIL, LOW_STOCK_WARNING, STOCK_LEVEL_OK}

\* The four subscriber instances the main program creates.
saleSubscriber == "saleSubscriber"
refillSubscriber == "refillSubscriber"
stockWarningSubscriber == "stockWarningSubscriber"
stockLevelOkSubscriber == "stockLevelOkSubscriber"
Subscribers ==
    {saleSubscriber, refillSubscriber, stockWarningSubscriber, stockLevelOkSubscriber}

\* --------------------------------------------------------------- events
MachineSaleEvent(sold, machineId) ==
    [type |-> SALE, machineId |-> machineId, payload |-> sold]
MachineRefillEvent(refill, machineId) ==
    [type |-> REFIL, machineId |-> machineId, payload |-> refill]
LowStockWarningEvent(stockRemain, machineId) ==
    [type |-> LOW_STOCK_WARNING, machineId |-> machineId, payload |-> stockRemain]
StockLevelOkEvent(stockRemain, machineId) ==
    [type |-> STOCK_LEVEL_OK, machineId |-> machineId, payload |-> stockRemain]
\* Placeholder for "no event" in console lines and call records.
NoEvent == [type |-> "none", machineId |-> "", payload |-> 0]

\* event.getSoldQuantity exists only on MachineSaleEvent, event.refillAmount
\* only on MachineRefillEvent; calling a missing method is a TypeError.
hasGetSoldQuantity(event) == event.type = SALE
hasRefillAmount(event) == event.type = REFIL

\* ------------------------------------------------------------- inventory
\* const machines = [new Machine('001'), new Machine('002'), new Machine('003')]
Machine(id) == [id |-> id, stockLevel |-> InitialStockLevel]
InitialMachines == << Machine("001"), Machine("002"), Machine("003") >>

\* Array.prototype.findIndex, 1-based, 0 for "not found" (-1 in the source).
RECURSIVE findIndexFrom(_, _, _)
findIndexFrom(ms, machineId, i) ==
    IF i > Len(ms) THEN 0
    ELSE IF ms[i].id = machineId THEN i
    ELSE findIndexFrom(ms, machineId, i + 1)

\* machines.find(machine => machine.id == machineId): index of the machine,
\* 0 for undefined.
getMachineById(ms, machineId) == findIndexFrom(ms, machineId, 1)

\* Variant: findIndex(...) >= -1 in place of > -1, true for every id.
isMachineExist_always(ms, machineId) == findIndexFrom(ms, machineId, 1) >= 0

\* MachineRepository.isMachineExist
isMachineExist(ms, machineId) == findIndexFrom(ms, machineId, 1) > 0

\* Variant: an unknown id reads as a stock of 0 in place of the throw.
getStockRemain_zero(ms, machineId) ==
    LET i == getMachineById(ms, machineId)
    IN  IF i = 0 THEN [fault |-> FALSE, value |-> 0, machines |-> ms]
        ELSE [fault |-> FALSE, value |-> ms[i].stockLevel, machines |-> ms]

\* The repository operations answer [fault, value, machines]; fault is the
\* thrown Error(`Machine ID [..] does not exist.`).
getStockRemain(ms, machineId) ==
    LET i == getMachineById(ms, machineId)
    IN  IF i = 0 THEN [fault |-> TRUE, value |-> 0, machines |-> ms]
        ELSE [fault |-> FALSE, value |-> ms[i].stockLevel, machines |-> ms]

\* Variant: the stock is floored at zero.
reduceStock_floored(ms, machineId, total) ==
    LET i == getMachineById(ms, machineId)
    IN  IF i = 0 THEN [fault |-> TRUE, value |-> 0, machines |-> ms]
        ELSE [fault |-> FALSE, value |-> 0,
              machines |-> [ms EXCEPT ![i].stockLevel =
                               IF @ - total < 0 THEN 0 ELSE @ - total]]

reduceStock(ms, machineId, total) ==
    LET i == getMachineById(ms, machineId)
    IN  IF i = 0 THEN [fault |-> TRUE, value |-> 0, machines |-> ms]
        ELSE [fault |-> FALSE, value |-> 0,
              machines |-> [ms EXCEPT ![i].stockLevel = @ - total]]

\* Variant: a refill never takes the stock above the initial stock level.
refillStock_capped(ms, machineId, total) ==
    LET i == getMachineById(ms, machineId)
    IN  IF i = 0 THEN [fault |-> TRUE, value |-> 0, machines |-> ms]
        ELSE [fault |-> FALSE, value |-> 0,
              machines |-> [ms EXCEPT ![i].stockLevel =
                               IF @ + total > InitialStockLevel
                               THEN InitialStockLevel ELSE @ + total]]

refillStock(ms, machineId, total) ==
    LET i == getMachineById(ms, machineId)
    IN  IF i = 0 THEN [fault |-> TRUE, value |-> 0, machines |-> ms]
        ELSE [fault |-> FALSE, value |-> 0,
              machines |-> [ms EXCEPT ![i].stockLevel = @ + total]]

\* --------------------------------------------------------------- console
\* One line of console.log / console.error output.
Log(text, event) == [text |-> text, event |-> event]

\* ------------------------------------------------------------- handlers
\* A handler runs on st = [machines, holder, console, fault]: the Machine
\* objects, the eventHolder array it was passed, the console output so far,
\* and whether it threw.

\* Variant: the sale is taken from this.machines[2], whatever machine the
\* event names.
MachineSaleSubscriber_handle_third(event, st) ==
    LET i == getMachineById(st.machines, event.machineId)
        received == Append(st.console, Log("[MachineSaleSubscriber] Event receive", event))
    IN  IF i = 0
        THEN [st EXCEPT !.console =
                 Append(received, Log("Unknown machine event occurs", NoEvent))]
        ELSE IF ~hasGetSoldQuantity(event)
        THEN [st EXCEPT !.console = received, !.fault = TRUE]
        ELSE LET stockLevelBeforeEvent == st.machines[3].stockLevel
                 ms == [st.machines EXCEPT ![3].stockLevel = @ - event.payload]
             IN  [st EXCEPT
                    !.console = received,
                    !.machines = ms,
                    !.holder =
                        IF /\ stockLevelBeforeEvent >= LOW_STOCK_WARNING_THRESHOLD
                           /\ ms[3].stockLevel < LOW_STOCK_WARNING_THRESHOLD
                        THEN Append(@, LowStockWarningEvent(ms[3].stockLevel, ms[3].id))
                        ELSE @]

\* Variant: the derived event is put at the head of the holder (unshift).
MachineSaleSubscriber_handle_unshift(event, st) ==
    LET i == getMachineById(st.machines, event.machineId)
        received == Append(st.console, Log("[MachineSaleSubscriber] Event receive", event))
    IN  IF i = 0
        THEN [st EXCEPT !.console =
                 Append(received, Log("Unknown machine event occurs", NoEvent))]
        ELSE IF ~hasGetSoldQuantity(event)
        THEN [st EXCEPT !.console = received, !.fault = TRUE]
        ELSE LET stockLevelBeforeEvent == st.machines[i].stockLevel
                 ms == [st.machines EXCEPT ![i].stockLevel = @ - event.payload]
             IN  [st EXCEPT
                    !.console = received,
                    !.machines = ms,
                    !.holder =
                        IF /\ stockLevelBeforeEvent >= LOW_STOCK_WARNING_THRESHOLD
                           /\ ms[i].stockLevel < LOW_STOCK_WARNING_THRESHOLD
                        THEN << LowStockWarningEvent(ms[i].stockLevel, ms[i].id) >> \o @
                        ELSE @]

\* src/app.ts, MachineSaleSubscriber.handle
MachineSaleSubscriber_handle(event, st) ==
    LET i == getMachineById(st.machines, event.machineId)
        received == Append(st.console, Log("[MachineSaleSubscriber] Event receive", event))
    IN  IF i = 0
        THEN [st EXCEPT !.console =
                 Append(received, Log("Unknown machine event occurs", NoEvent))]
        ELSE IF ~hasGetSoldQuantity(event)
        THEN [st EXCEPT !.console = received, !.fault = TRUE]
        ELSE LET stockLevelBeforeEvent == st.machines[i].stockLevel
                 ms == [st.machines EXCEPT ![i].stockLevel = @ - event.payload]
             IN  [st EXCEPT
                    !.console = received,
                    !.machines = ms,
                    !.holder =
                        IF /\ stockLevelBeforeEvent >= LOW_STOCK_WARNING_THRESHOLD
                           /\ ms[i].stockLevel < LOW_STOCK_WARNING_THRESHOLD
                        THEN Append(@, LowStockWarningEvent(ms[i].stockLevel, ms[i].id))
                        ELSE @]

\* Variant: a refill that brings the stock back withdraws the machine's
\* pending warnings from the holder before it appends the stock-ok event.
MachineRefillSubscriber_handle_withdraw(event, st) ==
    LET i == getMachineById(st.machines, event.machineId)
        received == Append(st.console, Log("[MachineRefillSubscriber] Event receive", event))
    IN  IF i = 0
        THEN [st EXCEPT !.console =
                 Append(received, Log("Unknown machine event occurs", NoEvent))]
        ELSE IF ~hasRefillAmount(event)
        THEN [st EXCEPT !.console = received, !.fault = TRUE]
        ELSE LET stockLevelBeforeEvent == st.machines[i].stockLevel
                 ms == [st.machines EXCEPT ![i].stockLevel = @ + event.payload]
                 Stays(e) == ~(e.type = LOW_STOCK_WARNING /\ e.machineId = ms[i].id)
             IN  [st EXCEPT
                    !.console = received,
                    !.machines = ms,
                    !.holder =
                        IF /\ stockLevelBeforeEvent < LOW_STOCK_WARNING_THRESHOLD
                           /\ ms[i].stockLevel >= LOW_STOCK_WARNING_THRESHOLD
                        THEN Append(SelectSeq(@, Stays),
                                    StockLevelOkEvent(ms[i].stockLevel, ms[i].id))
                        ELSE @]

\* Variant: the stock after the refill is compared with > instead of >=.
MachineRefillSubscriber_handle_strict(event, st) ==
    LET i == getMachineById(st.machines, event.machineId)
        received == Append(st.console, Log("[MachineRefillSubscriber] Event receive", event))
    IN  IF i = 0
        THEN [st EXCEPT !.console =
                 Append(received, Log("Unknown machine event occurs", NoEvent))]
        ELSE IF ~hasRefillAmount(event)
        THEN [st EXCEPT !.console = received, !.fault = TRUE]
        ELSE LET stockLevelBeforeEvent == st.machines[i].stockLevel
                 ms == [st.machines EXCEPT ![i].stockLevel = @ + event.payload]
             IN  [st EXCEPT
                    !.console = received,
                    !.machines = ms,
                    !.holder =
                        IF /\ stockLevelBeforeEvent < LOW_STOCK_WARNING_THRESHOLD
                           /\ ms[i].stockLevel > LOW_STOCK_WARNING_THRESHOLD
                        THEN Append(@, StockLevelOkEvent(ms[i].stockLevel, ms[i].id))
                        ELSE @]

\* src/app.ts, MachineRefillSubscriber.handle
MachineRefillSubscriber_handle(event, st) ==
    LET i == getMachineById(st.machines, event.machineId)
        received == Append(st.console, Log("[MachineRefillSubscriber] Event receive", event))
    IN  IF i = 0
        THEN [st EXCEPT !.console =
                 Append(received, Log("Unknown machine event occurs", NoEvent))]
        ELSE IF ~hasRefillAmount(event)
        THEN [st EXCEPT !.console = received, !.fault = TRUE]
        ELSE LET stockLevelBeforeEvent == st.machines[i].stockLevel
                 ms == [st.machines EXCEPT ![i].stockLevel = @ + event.payload]
             IN  [st EXCEPT
                    !.console = received,
                    !.machines = ms,
                    !.holder =
                        IF /\ stockLevelBeforeEvent < LOW_STOCK_WARNING_THRESHOLD
                           /\ ms[i].stockLevel >= LOW_STOCK_WARNING_THRESHOLD
                        THEN Append(@, StockLevelOkEvent(ms[i].stockLevel, ms[i].id))
                        ELSE @]

\* Variant: level-triggered, the stock before the sale is not looked at.
MachineSaleSubscriber_handle_repository_level(event, st) ==
    LET machineId == event.machineId
        received == Append(st.console, Log("[MachineSaleSubscriber] Event receive", event))
    IN  IF ~isMachineExist(st.machines, machineId)
        THEN [st EXCEPT !.console =
                 Append(received, Log("No machine found for the event", NoEvent))]
        ELSE LET pre == getStockRemain(st.machines, machineId)
             IN  IF pre.fault \/ ~hasGetSoldQuantity(event)
                 THEN [st EXCEPT !.console = received, !.fault = TRUE]
                 ELSE LET reduced == reduceStock(st.machines, machineId, event.payload)
                          post == getStockRemain(reduced.machines, machineId)
                      IN  IF reduced.fault \/ post.fault
                          THEN [st EXCEPT !.console = received,
                                          !.machines = reduced.machines,
                                          !.fault = TRUE]
                          ELSE [st EXCEPT
                                  !.console = received,
                                  !.machines = reduced.machines,
                                  !.holder =
                                      IF post.value < LOW_STOCK_WARNING_THRESHOLD
                                      THEN Append(@, LowStockWarningEvent(post.value, machineId))
                                      ELSE @]

\* Variant: the stock after the sale is compared with <= instead of <.
MachineSaleSubscriber_handle_repository_inclusive(event, st) ==
    LET machineId == event.machineId
        received == Append(st.console, Log("[MachineSaleSubscriber] Event receive", event))
    IN  IF ~isMachineExist(st.machines, machineId)
        THEN [st EXCEPT !.console =
                 Append(received, Log("No machine found for the event", NoEvent))]
        ELSE LET pre == getStockRemain(st.machines, machineId)
             IN  IF pre.fault \/ ~hasGetSoldQuantity(event)
                 THEN [st EXCEPT !.console = received, !.fault = TRUE]
                 ELSE LET reduced == reduceStock(st.machines, machineId, event.payload)
                          post == getStockRemain(reduced.machines, machineId)
                      IN  [st EXCEPT
                             !.console = received,
                             !.machines = reduced.machines,
                             !.holder =
                                 IF /\ pre.value >= LOW_STOCK_WARNING_THRESHOLD
                                    /\ post.value <= LOW_STOCK_WARNING_THRESHOLD
                                 THEN Append(@, LowStockWarningEvent(post.value, machineId))
                                 ELSE @]

\* src/unnamed/part_000, MachineSaleSubscriber.handle (through the repository)
MachineSaleSubscriber_handle_repository(event, st) ==
    LET machineId == event.machineId
        received == Append(st.console, Log("[MachineSaleSubscriber] Event receive", event))
    IN  IF ~isMachineExist(st.machines, machineId)
        THEN [st EXCEPT !.console =
                 Append(received, Log("No machine found for the event", NoEvent))]
        ELSE LET pre == getStockRemain(st.machines, machineId)
             IN  IF pre.fault \/ ~hasGetSoldQuantity(event)
                 THEN [st EXCEPT !.console = received, !.fault = TRUE]
                 ELSE LET reduced == reduceStock(st.machines, machineId, event.payload)
                          post == getStockRemain(reduced.machines, machineId)
                      IN  IF reduced.fault \/ post.fault
                          THEN [st EXCEPT !.console = received,
                                          !.machines = reduced.machines,
                                          !.fault = TRUE]
                          ELSE [st EXCEPT
                                  !.console = received,
                                  !.machines = reduced.machines,
                                  !.holder =
                                      IF /\ pre.value >= LOW_STOCK_WARNING_THRESHOLD
                                         /\ post.value < LOW_STOCK_WARNING_THRESHOLD
                                      THEN Append(@, LowStockWarningEvent(post.value, machineId))
                                      ELSE @]

\* Variant: the stock-ok event carries the stock read before the refill.
MachineRefillSubscriber_handle_repository_stale(event, st) ==
    LET machineId == event.machineId
        received == Append(st.console, Log("[MachineRefillSubscriber] Event receive", event))
    IN  IF ~isMachineExist(st.machines, machineId)
        THEN [st EXCEPT !.console =
                 Append(received, Log("No machine found for the event", NoEvent))]
        ELSE LET pre == getStockRemain(st.machines, machineId)
             IN  IF pre.fault \/ ~hasRefillAmount(event)
                 THEN [st EXCEPT !.console = received, !.fault = TRUE]
                 ELSE LET refilled == refillStock(st.machines, machineId, event.payload)
                          post == getStockRemain(refilled.machines, machineId)
                      IN  IF refilled.fault \/ post.fault
                          THEN [st EXCEPT !.console = received,
                                          !.machines = refilled.machines,
                                          !.fault = TRUE]
                          ELSE [st EXCEPT
                                  !.console = received,
                                  !.machines = refilled.machines,
                                  !.holder =
                                      IF /\ pre.value < LOW_STOCK_WARNING_THRESHOLD
                                         /\ post.value >= LOW_STOCK_WARNING_THRESHOLD
                                      THEN Append(@, StockLevelOkEvent(pre.value, machineId))
                                      ELSE @]

\* Variant: level-triggered, the stock before the refill is not looked at.
MachineRefillSubscriber_handle_repository_level(event, st) ==
    LET machineId == event.machineId
        received == Append(st.console, Log("[MachineRefillSubscriber] Event receive", event))
    IN  IF ~isMachineExist(st.machines, machineId)
        THEN [st EXCEPT !.console =
                 Append(received, Log("No machine found for the event", NoEvent))]
        ELSE IF ~hasRefillAmount(event)
        THEN [st EXCEPT !.console = received, !.fault = TRUE]
        ELSE LET refilled == refillStock(st.machines, machineId, event.payload)
                 post == getStockRemain(refilled.machines, machineId)
             IN  [st EXCEPT
                    !.console = received,
                    !.machines = refilled.machines,
                    !.holder =
                        IF post.value >= LOW_STOCK_WARNING_THRESHOLD
                        THEN Append(@, StockLevelOkEvent(post.value, machineId))
                        ELSE @]

\* src/unnamed/part_000, MachineRefillSubscriber.handle (through the repository)
MachineRefillSubscriber_handle_repository(event, st) ==
    LET machineId == event.machineId
        received == Append(st.console, Log("[MachineRefillSubscriber] Event receive", event))
    IN  IF ~isMachineExist(st.machines, machineId)
        THEN [st EXCEPT !.console =
                 Append(received, Log("No machine found for the event", NoEvent))]
        ELSE LET pre == getStockRemain(st.machines, machineId)
             IN  IF pre.fault \/ ~hasRefillAmount(event)
                 THEN [st EXCEPT !.console = received, !.fault = TRUE]
                 ELSE LET refilled == refillStock(st.machines, machineId, event.payload)
                          post == getStockRemain(refilled.machines, machineId)
                      IN  IF refilled.fault \/ post.fault
                          THEN [st EXCEPT !.console = received,
                                          !.machines = refilled.machines,
                                          !.fault = TRUE]
                          ELSE [st EXCEPT
                                  !.console = received,
                                  !.machines = refilled.machines,
                                  !.holder =
                                      IF /\ pre.value < LOW_STOCK_WARNING_THRESHOLD
                                         /\ post.value >= LOW_STOCK_WARNING_THRESHOLD
                                      THEN Append(@, StockLevelOkEvent(post.value, machineId))
                                      ELSE @]

\* StockWarningSubscriber.handle: logs the event, nothing else.
StockWarningSubscriber_handle(event, st) ==
    [st EXCEPT !.console =
        Append(@, Log("[StockWarningSubscriber] Event receive", event))]

\* Variant: the stock-ok handler acts on the event: it tops the machine up
\* to the initial stock level.
StockLevelOkSubscriber_handle_restock(event, st) ==
    LET i == getMachineById(st.machines, event.machineId)
    IN  [st EXCEPT !.console =
                      Append(@, Log("[StockLevelOkSubscriber] Event receive", event)),
                   !.machines = IF i = 0 THEN @
                                ELSE [@ EXCEPT ![i].stockLevel = InitialStockLevel]]

\* StockLevelOkSubscriber.handle: logs the event, nothing else.
StockLevelOkSubscriber_handle(event, st) ==
    [st EXCEPT !.console =
        Append(@, Log("[StockLevelOkSubscriber] Event receive", event))]

\* subscriber.handle(event, eventHolder): dynamic dispatch on the instance.
handle(ver, subscriber, event, st) ==
    IF subscriber = saleSubscriber
    THEN IF ver = "app" THEN MachineSaleSubscriber_handle(event, st)
         ELSE MachineSaleSubscriber_handle_repository(event, st)
    ELSE IF subscriber = refillSubscriber
    THEN IF ver = "app" THEN MachineRefillSubscriber_handle(event, st)
         ELSE MachineRefillSubscriber_handle_repository(event, st)
    ELSE IF subscriber = stockWarningSubscriber
    THEN StockWarningSubscriber_handle(event, st)
    ELSE StockLevelOkSubscriber_handle(event, st)

\* ------------------------------------------------------------------- bus
\* The registry is the object eventSubscribe: a function whose domain is the
\* set of keys present; a key that was never subscribed is absent
\* (undefined), a key whose handlers were all removed maps to << >>.
EmptyRegistry == [t \in {} |-> << >>]

\* eventSubscribe is an object literal, so this.eventSubscribe[type] also
\* finds what Object.prototype has under the name: a function (or, for
\* __proto__, the prototype object), which is truthy and has no forEach,
\* push or filter.
ObjectPrototypeKeys ==
    {"constructor", "toString", "toLocaleString", "valueOf", "hasOwnProperty",
     "isPrototypeOf", "propertyIsEnumerable", "__proto__",
     "__defineGetter__", "__defineSetter__", "__lookupGetter__", "__lookupSetter__"}

\* this.eventSubscribe[type]: "array" for a list of the registry,
\* "inherited" for a member of Object.prototype, "undefined" otherwise.
Lookup(registry, type) ==
    IF type \in DOMAIN registry THEN "array"
    ELSE IF type \in ObjectPrototypeKeys THEN "inherited"
    ELSE "undefined"

\* One entry of the record of handler invocations of a publish.
Invocation(subscriber, event, before, after) ==
    [subscriber |-> subscriber, event |-> event,
     machinesBefore |-> before.machines, machinesAfter |-> after.machines,
     holderBefore |-> before.holder, holderAfter |-> after.holder,
     fault |-> after.fault]

\* subscribers.forEach(subscriber => subscriber.handle(event, eventHolder)),
\* from index i on; a throw ends the iteration.  res = [st, trace].
\* Variant: each handler call is wrapped in try/catch, so a throw is
\* swallowed and the iteration goes on.
RECURSIVE forEach_isolated(_, _, _, _, _)
forEach_isolated(ver, subscribers, i, event, res) ==
    IF i > Len(subscribers) THEN res
    ELSE LET after == handle(ver, subscribers[i], event, res.st)
         IN  forEach_isolated(ver, subscribers, i + 1, event,
                     [st |-> [after EXCEPT !.fault = FALSE],
                      trace |-> Append(res.trace,
                                       Invocation(subscribers[i], event, res.st, after))])

\* Variant: Array.prototype.every in place of forEach; handle returns
\* undefined, so the iteration ends after the first subscriber.
forEach_every(ver, subscribers, i, event, res) ==
    IF i > Len(subscribers) \/ res.st.fault THEN res
    ELSE LET after == handle(ver, subscribers[i], event, res.st)
         IN  [st |-> after,
              trace |-> Append(res.trace,
                               Invocation(subscribers[i], event, res.st, after))]

RECURSIVE forEach(_, _, _, _, _)
forEach(ver, subscribers, i, event, res) ==
    IF i > Len(subscribers) \/ res.st.fault THEN res
    ELSE LET after == handle(ver, subscribers[i], event, res.st)
         IN  forEach(ver, subscribers, i + 1, event,
                     [st |-> after,
                      trace |-> Append(res.trace,
                                       Invocation(subscribers[i], event, res.st, after))])

\* PublishSubscribeService.publish.  `!subscribers` is true for undefined
\* only; subscribers.forEach on an inherited member is a TypeError.
publish(ver, registry, event, st) ==
    IF Lookup(registry, event.type) = "undefined"
    THEN [st |-> [st EXCEPT !.console = Append(@, Log("No subscriber", NoEvent))],
          trace |-> << >>]
    ELSE IF Lookup(registry, event.type) = "inherited"
    THEN [st |-> [st EXCEPT !.fault = TRUE], trace |-> << >>]
    ELSE forEach(ver, registry[event.type], 1, event, [st |-> st, trace |-> << >>])

\* PublishSubscribeService.subscribe: [registry, fault].  An inherited
\* member is truthy, so the push branch is taken and push is a TypeError.
subscribe(registry, type, handler) ==
    IF Lookup(registry, type) = "array"
    THEN [registry |-> [registry EXCEPT ![type] = Append(@, handler)],
          fault |-> FALSE]
    ELSE IF Lookup(registry, type) = "inherited"
    THEN [registry |-> registry, fault |-> TRUE]
    ELSE [registry |-> [t \in DOMAIN registry \cup {type} |->
                           IF t = type THEN << handler >> ELSE registry[t]],
          fault |-> FALSE]

\* Variant: only the first occurrence is removed (indexOf + splice).
RECURSIVE filter_first(_, _)
filter_first(subscribers, handler) ==
    IF subscribers = << >> THEN << >>
    ELSE IF Head(subscribers) # handler
    THEN << Head(subscribers) >> \o filter_first(Tail(subscribers), handler)
    ELSE Tail(subscribers)

\* subscribers.filter(subscribedHandler => subscribedHandler != handler)
RECURSIVE filter(_, _)
filter(subscribers, handler) ==
    IF subscribers = << >> THEN << >>
    ELSE IF Head(subscribers) # handler
    THEN << Head(subscribers) >> \o filter(Tail(subscribers), handler)
    ELSE filter(Tail(subscribers), handler)

\* Variant: the handler is removed from the list of every type.
unsubscribe_everywhere(registry, type, handler, console) ==
    IF Lookup(registry, type) = "undefined"
    THEN [registry |-> registry,
          console |-> Append(console, Log("Subscribe not found.", NoEvent)),
          fault |-> FALSE]
    ELSE IF Lookup(registry, type) = "inherited"
    THEN [registry |-> registry, console |-> console, fault |-> TRUE]
    ELSE [registry |-> [t \in DOMAIN registry |-> filter(registry[t], handler)],
          console |-> console, fault |-> FALSE]

\* PublishSubscribeService.unsubscribe: [registry, console, fault].
\* subscribers.filter on an inherited member is a TypeError.
unsubscribe(registry, type, handler, console) ==
    IF Lookup(registry, type) = "undefined"
    THEN [registry |-> registry,
          console |-> Append(console, Log("Subscribe not found.", NoEvent)),
          fault |-> FALSE]
    ELSE IF Lookup(registry, type) = "inherited"
    THEN [registry |-> registry, console |-> console, fault |-> TRUE]
    ELSE [registry |-> [registry EXCEPT ![type] = filter(@, handler)],
          console |-> console, fault |-> FALSE]

\* ---------------------------------------------------------------- caller
\* randomMachine(): the ids it returns.
randomMachine == {"001", "002", "003"}

\* eventGenerator(): the events it returns, a sale of 1 or 2 or a refill
\* of 3 or 5 for a random machine.
eventGenerator ==
    {MachineSaleEvent(saleQty, m) : saleQty \in {1, 2}, m \in randomMachine}
    \cup {MachineRefillEvent(refillQty, m) : refillQty \in {3, 5}, m \in randomMachine}

SeqsUpTo(S, n) == UNION {[1..k -> S] : k \in 0..n}

\* [1, 2, 3, 4, 5].map(i => eventGenerator()), cut at MaxGenerated events.
GeneratedBatches == SeqsUpTo(eventGenerator, MaxGenerated)

\* The threshold test of the final main program, events written by hand.
TestBatch ==
    << MachineSaleEvent(8, "001"), MachineSaleEvent(1, "001"),
       MachineSaleEvent(8, "002"), MachineRefillEvent(5, "002"),
       MachineRefillEvent(2, "002") >>

\* The batches of the two main programs.
MainBatches == GeneratedBatches \cup {TestBatch}

\* Events a caller writes by hand, as the threshold test does.  From the
\* initial stock of 10 a sale of 7 ends exactly on the threshold and a sale
\* of 8 one below it; a refill of 1 then moves 2 to 3 and 3 to 4, the two
\* sides of the comparisons.  "404" is the id of no Machine.
SaleQuantities == {7, 8}
RefillAmounts == {1}
\* An IEvent of the caller's own whose type() is the name of a member of
\* Object.prototype.
ForeignEvent == [type |-> "constructor", machineId |-> "001", payload |-> 0]
CallerEvents ==
    {MachineSaleEvent(q, "001") : q \in SaleQuantities}
    \cup {MachineRefillEvent(r, m) : r \in RefillAmounts, m \in {"001", "404"}}
    \cup {MachineSaleEvent(8, "404"), ForeignEvent}
\* The queue a caller hands to the loop: what the main programs build
\* (generated, or the threshold test) or a batch of its own events.
Batches == MainBatches \cup SeqsUpTo(CallerEvents, MaxBatch)

\* Type tags and handlers of the caller's further subscribe/unsubscribe
\* calls; "constructor" is a tag that is the name of an inherited member.
OpTypes == {SALE, REFIL, "constructor"}
OpHandlers == {saleSubscriber, refillSubscriber}

\* The four registrations of the main program, in its order.
MainRegistry ==
    subscribe(
      subscribe(
        subscribe(
          subscribe(EmptyRegistry, SALE, saleSubscriber).registry,
          REFIL, refillSubscriber).registry,
        LOW_STOCK_WARNING, stockWarningSubscriber).registry,
      STOCK_LEVEL_OK, stockLevelOkSubscriber).registry

\* The calls of the main program behind its loop, each with the [Main]
\* lines written before and after it: src/app.ts unsubscribes the Sale
\* handler; the final version unsubscribes it, subscribes it again
\* followed by the Refill handler under "sale", and unsubscribes it again.
MainTail(ver) ==
    IF ver = "app"
    THEN << [op |-> "unsubscribe", type |-> SALE, handler |-> saleSubscriber,
             before |-> << >>, after |-> << >>] >>
    ELSE << [op |-> "unsubscribe", type |-> SALE, handler |-> saleSubscriber,
             before |-> << "[Main] Unsubscribe saleSubscriber for Sale Event." >>,
             after |-> << "[Main] PubSub Service." >>],
            [op |-> "subscribe", type |-> SALE, handler |-> saleSubscriber,
             before |-> << >>, after |-> << >>],
            [op |-> "subscribe", type |-> SALE, handler |-> refillSubscriber,
             before |-> << >>,
             after |-> << "[Main] Subscribe again with additional subscriber on Sale Event.",
                          "[Main] PubSub Service." >>],
            [op |-> "unsubscribe", type |-> SALE, handler |-> saleSubscriber,
             before |-> << >>,
             after |-> << "[Main] Unsubscribe saleSubscriber for Sale Event.",
                          "[Main] PubSub Service." >>] >>

\* IS_DEBUG_LOG && console.log(text [, object]) of the main program; the
\* "PubSub Service." line prints the service, that is its registry.
MainLog(texts, registry) ==
    [k \in 1..Len(texts) |->
        Log(texts[k],
            IF texts[k] = "[Main] PubSub Service." THEN registry ELSE NoEvent)]

\* ----------------------------------------------------------------- state
VARIABLES
    version,         \* "app" (src/app.ts) or "repository" (part_000) subscribers
    eventSubscribe,  \* PublishSubscribeService.eventSubscribe
    machines,        \* the Machine objects
    events,          \* the events array of the main program (pending queue)
    console,         \* console.log / console.error output
    pc,              \* position of the main program
    nops,            \* further subscribe/unsubscribe calls made
    batch,           \* history: the batch as assembled
    delivered,       \* history: the events handed to publish, in order
    call             \* history: the last call, with its handler invocations

vars == << version, eventSubscribe, machines, events, console, pc, nops,
           batch, delivered, call >>

\* The record of a call: its arguments, the registry it found, and, for a
\* publish, its handler invocations.
Call(op, type, handler, event, registry, trace) ==
    [op |-> op, type |-> type, handler |-> handler, event |-> event,
     registryBefore |-> registry, trace |-> trace]

Init ==
    /\ version \in {"app", "repository"}
    /\ eventSubscribe = EmptyRegistry
    /\ machines = InitialMachines
    /\ events = << >>
    /\ console = << Log("[Main] Test Begin", NoEvent) >>
    /\ pc = "main"
    /\ nops = 0
    /\ batch = << >>
    /\ delivered = << >>
    /\ call = Call("new", "", "", NoEvent, EmptyRegistry, << >>)

\* pubSubService.subscribe(...) x 4 at the start of the main program
Register ==
    /\ pc = "main"
    /\ nops = 0
    /\ eventSubscribe = EmptyRegistry
    /\ eventSubscribe' = MainRegistry
    /\ call' = Call("register", "", "", NoEvent, eventSubscribe, << >>)
    /\ UNCHANGED << version, machines, events, console, pc, nops, batch, delivered >>

\* pubSubService.subscribe(type, handler)
Subscribe(type, handler) ==
    /\ pc \in {"main", "end"}
    /\ nops < MaxOps
    /\ LET r == subscribe(eventSubscribe, type, handler)
       IN  /\ eventSubscribe' = r.registry
           /\ pc' = IF r.fault THEN "fault" ELSE pc
    /\ nops' = nops + 1
    /\ call' = Call("subscribe", type, handler, NoEvent, eventSubscribe, << >>)
    /\ UNCHANGED << version, machines, events, console, batch, delivered >>

\* pubSubService.unsubscribe(type, handler)
Unsubscribe(type, handler) ==
    /\ pc \in {"main", "end"}
    /\ nops < MaxOps
    /\ LET r == unsubscribe(eventSubscribe, type, handler, console)
       IN  /\ eventSubscribe' = r.registry
           /\ console' = r.console
           /\ pc' = IF r.fault THEN "fault" ELSE pc
    /\ nops' = nops + 1
    /\ call' = Call("unsubscribe", type, handler, NoEvent, eventSubscribe, << >>)
    /\ UNCHANGED << version, machines, events, batch, delivered >>

\* const events = [...]: the batch is assembled and the drain loop entered.
Assemble(b) ==
    /\ pc = "main"
    /\ events' = b
    /\ batch' = b
    /\ pc' = "loop"
    /\ call' = Call("assemble", "", "", NoEvent, eventSubscribe, << >>)
    /\ UNCHANGED << version, eventSubscribe, machines, console, nops, delivered >>

\* IS_DEBUG_LOG && console.log(`[Main] Machine Status after every event`,
\* machines), the statement behind the loop.
MachineStatus(lines, ms) ==
    Append(lines, Log("[Main] Machine Status after every event", ms))

\* One iteration of
\*   do { const event = events.shift(); if (!event) break;
\*        pubSubService.publish(event, events); } while (events.length > 0)
\* and, when it leaves the loop, the status line behind it.
Drain ==
    /\ pc = "loop"
    /\ IF events = << >>
       THEN /\ pc' = "end"
            /\ console' = MachineStatus(console, machines)
            /\ call' = Call("break", "", "", NoEvent, eventSubscribe, << >>)
            /\ UNCHANGED << machines, events, delivered >>
       ELSE LET event == Head(events)
                r == publish(version, eventSubscribe, event,
                             [machines |-> machines, holder |-> Tail(events),
                              console |-> console, fault |-> FALSE])
            IN  /\ machines' = r.st.machines
                /\ events' = r.st.holder
                /\ delivered' = Append(delivered, event)
                /\ call' = Call("publish", event.type, "", event, eventSubscribe, r.trace)
                /\ pc' = IF r.st.fault THEN "fault"
                         ELSE IF Len(r.st.holder) > 0 THEN "loop" ELSE "end"
                /\ console' = IF ~r.st.fault /\ Len(r.st.holder) = 0
                              THEN MachineStatus(r.st.console, r.st.machines)
                              ELSE r.st.console
    /\ UNCHANGED << version, eventSubscribe, nops, batch >>

\* IS_DEBUG_LOG && console.log(`[Main] Test End.`): the main program ends.
TestEnd ==
    /\ pc = "end"
    /\ pc' = "done"
    /\ console' = Append(console, Log("[Main] Test End.", NoEvent))
    /\ call' = Call("end", "", "", NoEvent, eventSubscribe, << >>)
    /\ UNCHANGED << version, eventSubscribe, machines, events, nops, batch, delivered >>

\* A caller of the bus and the handlers that does what the main programs
\* do, with any subscribe and unsubscribe calls before and behind the
\* loop and with the batch of a main program or one written by hand.
Next ==
    \/ Register
    \/ \E t \in OpTypes, h \in OpHandlers : Subscribe(t, h)
    \/ \E t \in OpTypes, h \in OpHandlers : Unsubscribe(t, h)
    \/ \E b \in Batches : Assemble(b)
    \/ Drain
    \/ TestEnd

Spec == Init /\ [][Next]_vars

\* The next call of the main program behind its loop, with its lines.
MainCall ==
    /\ pc = "end"
    /\ nops < Len(MainTail(version))
    /\ LET c == MainTail(version)[nops + 1]
           before == console \o MainLog(c.before, eventSubscribe)
           r == IF c.op = "subscribe"
                THEN LET sub == subscribe(eventSubscribe, c.type, c.handler)
                     IN  [registry |-> sub.registry, console |-> before,
                          fault |-> sub.fault]
                ELSE unsubscribe(eventSubscribe, c.type, c.handler, before)
       IN  /\ eventSubscribe' = r.registry
           /\ console' = IF r.fault THEN r.console
                         ELSE r.console \o MainLog(c.after, r.registry)
           /\ pc' = IF r.fault THEN "fault" ELSE "end"
           /\ call' = Call(c.op, c.type, c.handler, NoEvent, eventSubscribe, << >>)
    /\ nops' = nops + 1
    /\ UNCHANGED << version, machines, events, batch, delivered >>

\* The main programs as written: the four subscribes, the batch, the drain
\* loop, the calls behind the loop, the end.
MainNext ==
    \/ Register
    \/ \E b \in MainBatches : eventSubscribe = MainRegistry /\ Assemble(b)
    \/ Drain
    \/ MainCall
    \/ nops = Len(MainTail(version)) /\ TestEnd

\* The program runs the loop on without waiting: an iteration that can be
\* taken is taken.
MainSpec == Init /\ [][MainNext]_vars /\ WF_vars(Drain)

\* A caller that registers the four handlers as the main programs do and
\* drains a batch of its own or of a main program, then ends as they do.
DrainNext ==
    \/ Register
    \/ \E b \in Batches : eventSubscribe = MainRegistry /\ Assemble(b)
    \/ Drain
    \/ MainCall
    \/ nops = Len(MainTail(version)) /\ TestEnd

DrainSpec == Init /\ [][DrainNext]_vars /\ WF_vars(Drain)

\* ------------------------------------------------- repository, directly
\* A caller of MachineRepository alone: new MachineRepository(machines)
\* followed by calls of its public methods.  A call is recorded with its
\* arguments, the machines before, and what it answered; a throw that
\* nobody catches ends the caller.
RepositoryMachineIds == {"001", "002", "003", "404"}
RepositoryTotals == SaleQuantities \cup RefillAmounts

RepositoryCall(op, machineId, total, before, r) ==
    [op |-> op, type |-> "", handler |-> "", event |-> NoEvent,
     registryBefore |-> EmptyRegistry,
     trace |-> << [machineId |-> machineId, total |-> total,
                   machinesBefore |-> before, machinesAfter |-> r.machines,
                   fault |-> r.fault, value |-> r.value] >>]

RepositoryInit ==
    /\ version = "repository"
    /\ eventSubscribe = EmptyRegistry
    /\ machines = InitialMachines
    /\ events = << >>
    /\ console = << >>
    /\ pc = "main"
    /\ nops = 0
    /\ batch = << >>
    /\ delivered = << >>
    /\ call = Call("new", "", "", NoEvent, EmptyRegistry, << >>)

\* The effect of one repository call that answered r.
RepositoryStep(op, machineId, total, r) ==
    /\ pc = "main"
    /\ nops < MaxOps
    /\ nops' = nops + 1
    /\ machines' = r.machines
    /\ pc' = IF r.fault THEN "fault" ELSE "main"
    /\ call' = RepositoryCall(op, machineId, total, machines, r)
    /\ UNCHANGED << version, eventSubscribe, events, console, batch, delivered >>

IsMachineExist(machineId) ==
    RepositoryStep("isMachineExist", machineId, 0,
                   [fault |-> FALSE, value |-> isMachineExist(machines, machineId),
                    machines |-> machines])

GetStockRemain(machineId) ==
    RepositoryStep("getStockRemain", machineId, 0, getStockRemain(machines, machineId))

ReduceStock(machineId, total) ==
    RepositoryStep("reduceStock", machineId, total,
                   reduceStock(machines, machineId, total))

RefillStock(machineId, total) ==
    RepositoryStep("refillStock", machineId, total,
                   refillStock(machines, machineId, total))

RepositoryNext ==
    \/ \E id \in RepositoryMachineIds : IsMachineExist(id)
    \/ \E id \in RepositoryMachineIds : GetStockRemain(id)
    \/ \E id \in RepositoryMachineIds, total \in RepositoryTotals : ReduceStock(id, total)
    \/ \E id \in RepositoryMachineIds, total \in RepositoryTotals : RefillStock(id, total)

RepositorySpec == RepositoryInit /\ [][RepositoryNext]_vars

\* =================================================================
\* Properties
\* =================================================================
Range(seq) == {seq[i] : i \in 1..Len(seq)}
IsPrefix(p, q) == Len(p) <= Len(q) /\ SubSeq(q, 1, Len(p)) = p
Known(ms, machineId) == \E i \in 1..Len(ms) : ms[i].id = machineId
StockOf(ms, machineId) ==
    (CHOOSE m \in Range(ms) : m.id = machineId).stockLevel
Occurrences(seq, x) == Cardinality({i \in 1..Len(seq) : seq[i] = x})
IsDerived(event) == event.type \in {LOW_STOCK_WARNING, STOCK_LEVEL_OK}

\* The "Event receive" line each subscriber class writes.
ReceiveText(subscriber) ==
    CASE subscriber = saleSubscriber -> "[MachineSaleSubscriber] Event receive"
      [] subscriber = refillSubscriber -> "[MachineRefillSubscriber] Event receive"
      [] subscriber = stockWarningSubscriber -> "[StockWarningSubscriber] Event receive"
      [] subscriber = stockLevelOkSubscriber -> "[StockLevelOkSubscriber] Event receive"
ReceiveTexts == {ReceiveText(h) : h \in Subscribers}
IsReceiveLine(line) == line.text \in ReceiveTexts

\* The lines the bus and the handlers write, as against the [Main] lines
\* of the program around them.
BusTexts ==
    ReceiveTexts \cup {"No subscriber", "Subscribe not found.",
                       "Unknown machine event occurs", "No machine found for the event"}
IsBusLine(line) == line.text \in BusTexts
BusLines(lines) == SelectSeq(lines, IsBusLine)

\* C1: a publish on a type with a handler list invokes the handlers of the
\* list in list order, one invocation per entry, each with the published
\* event and the same queue (what one invocation leaves is what the next
\* finds, the first finds the queue the driver passed, the last leaves
\* the driver's queue); the only way an entry is not reached is that an
\* earlier invocation threw.  The console shows the same: one "Event
\* receive" line per entry, in list order.
C1_PublishInOrder ==
    [][(call'.op = "publish" /\ call'.type \in DOMAIN eventSubscribe) =>
        LET L == eventSubscribe[call'.type]
            T == call'.trace
            new == SubSeq(console', Len(console) + 1, Len(console'))
        IN  /\ call'.event = Head(events)
            /\ Len(T) <= Len(L)
            /\ \A i \in 1..Len(T) :
                  /\ T[i].subscriber = L[i]
                  /\ T[i].event = call'.event
                  /\ T[i].holderBefore =
                        IF i = 1 THEN Tail(events) ELSE T[i - 1].holderAfter
                  /\ T[i].fault => i = Len(T)
            /\ Len(T) > 0 => events' = T[Len(T)].holderAfter
            /\ Len(T) < Len(L) => (Len(T) > 0 /\ T[Len(T)].fault)
            /\ (pc' = "fault") <=> (Len(T) > 0 /\ T[Len(T)].fault)
            /\ SelectSeq(new, IsReceiveLine) =
                  [i \in 1..Len(T) |-> [text |-> ReceiveText(L[i]), event |-> call'.event]]
      ]_vars

\* C1 witness: a publish that went through a list of two different
\* handlers without a fault.
C1_Witness ==
    /\ call.op = "publish"
    /\ pc # "fault"
    /\ Len(call.trace) >= 2
    /\ call.trace[1].subscriber # call.trace[2].subscriber

\* C2: the drain is FIFO.  Each iteration hands the head of the queue to
\* publish and leaves the rest of the queue in place, new events only
\* behind it; so the events delivered so far followed by the queue always
\* begin with the assembled batch, and whatever follows the batch was
\* derived by a handler.
C2_DrainFifo ==
    /\ [][call'.op = "publish" =>
            /\ events # << >>
            /\ delivered' = Append(delivered, Head(events))
            /\ IsPrefix(Tail(events), events')
            /\ \A i \in Len(events)..Len(events') : IsDerived(events'[i])
         ]_vars
    /\ [](pc \in {"loop", "end", "fault"} =>
            LET all == delivered \o events
            IN  /\ IsPrefix(batch, all)
                /\ \A i \in Len(batch) + 1..Len(all) : IsDerived(all[i]))

\* C2 witness: the batch [E1, E2] where handling E1 appended E3 has been
\* delivered as E1, E2, E3.
C2_Witness ==
    /\ pc = "end"
    /\ Len(batch) = 2
    /\ Len(delivered) = 3
    /\ SALE \in DOMAIN call.registryBefore
    /\ Len(call.registryBefore[SALE]) = 1
    /\ delivered[1] = [type |-> SALE, machineId |-> "001", payload |-> 8]
    /\ delivered[2] = [type |-> SALE, machineId |-> "001", payload |-> 7]
    /\ delivered[3] = [type |-> LOW_STOCK_WARNING, machineId |-> "001", payload |-> 2]

\* C3: one invocation of the Sale handler with a Sale event for a known
\* machine M appends exactly LowStockWarning(post, M) when the stock of M
\* was >= 3 before and is < 3 after, and leaves the queue as it was in
\* every other case.
C3_SaleEdgeTriggered ==
    call.op = "publish" =>
        \A i \in 1..Len(call.trace) :
            LET v == call.trace[i]
                M == v.event.machineId
            IN  (/\ v.subscriber = saleSubscriber
                 /\ v.event.type = SALE
                 /\ Known(v.machinesBefore, M)) =>
                    LET pre == StockOf(v.machinesBefore, M)
                        post == StockOf(v.machinesAfter, M)
                    IN  /\ ~v.fault
                        /\ v.holderAfter =
                              IF pre >= 3 /\ post < 3
                              THEN v.holderBefore \o
                                   << [type |-> LOW_STOCK_WARNING,
                                       machineId |-> M, payload |-> post] >>
                              ELSE v.holderBefore

\* C3 witness: a sale that took a machine from exactly 3 to below 3 and
\* appended the warning.
C3_Witness ==
    /\ call.op = "publish"
    /\ \E i \in 1..Len(call.trace) :
          LET v == call.trace[i]
          IN  /\ v.subscriber = saleSubscriber
              /\ v.event.type = SALE
              /\ Known(v.machinesBefore, v.event.machineId)
              /\ StockOf(v.machinesBefore, v.event.machineId) = 3
              /\ StockOf(v.machinesAfter, v.event.machineId) < 3
              /\ Len(v.holderAfter) = Len(v.holderBefore) + 1

\* C4: one invocation of the Refill handler with a Refill event for a known
\* machine M appends exactly StockOk(post, M) when the stock of M was < 3
\* before and is >= 3 after, and leaves the queue as it was in every other
\* case.
C4_RefillEdgeTriggered ==
    call.op = "publish" =>
        \A i \in 1..Len(call.trace) :
            LET v == call.trace[i]
                M == v.event.machineId
            IN  (/\ v.subscriber = refillSubscriber
                 /\ v.event.type = REFIL
                 /\ Known(v.machinesBefore, M)) =>
                    LET pre == StockOf(v.machinesBefore, M)
                        post == StockOf(v.machinesAfter, M)
                    IN  /\ ~v.fault
                        /\ v.holderAfter =
                              IF pre < 3 /\ post >= 3
                              THEN v.holderBefore \o
                                   << [type |-> STOCK_LEVEL_OK,
                                       machineId |-> M, payload |-> post] >>
                              ELSE v.holderBefore

\* C4 witness: a refill that took a machine from below 3 to exactly 3 and
\* appended the stock-ok event.
C4_Witness ==
    /\ call.op = "publish"
    /\ \E i \in 1..Len(call.trace) :
          LET v == call.trace[i]
          IN  /\ v.subscriber = refillSubscriber
              /\ v.event.type = REFIL
              /\ Known(v.machinesBefore, v.event.machineId)
              /\ StockOf(v.machinesBefore, v.event.machineId) < 3
              /\ StockOf(v.machinesAfter, v.event.machineId) = 3
              /\ Len(v.holderAfter) = Len(v.holderBefore) + 1

\* C5: with the Sale handler the only entry of the "sale" list, publishing
\* Sale(q, M) for a known M leaves stock(M) = S - q, and with the Refill
\* handler the only entry of the "refil" list, publishing Refill(r, M)
\* leaves stock(M) = S + r, S being the stock before; nothing is clamped.
C5_StockArithmetic ==
    [][(/\ call'.op = "publish"
        /\ Known(machines, call'.event.machineId)
        /\ call'.type \in DOMAIN eventSubscribe) =>
          LET M == call'.event.machineId
              S == StockOf(machines, M)
          IN  /\ (call'.type = SALE /\ eventSubscribe[SALE] = << saleSubscriber >>)
                    => StockOf(machines', M) = S - call'.event.payload
              /\ (call'.type = REFIL /\ eventSubscribe[REFIL] = << refillSubscriber >>)
                    => StockOf(machines', M) = S + call'.event.payload
      ]_vars

\* C5 witness: a sale larger than the stock, delivered to the singly
\* registered Sale handler, has left the stock negative.
C5_Witness ==
    /\ call.op = "publish"
    /\ call.type = SALE
    /\ SALE \in DOMAIN call.registryBefore
    /\ call.registryBefore[SALE] = << saleSubscriber >>
    /\ Known(machines, call.event.machineId)
    /\ StockOf(machines, call.event.machineId) < 0
    /\ StockOf(machines, call.event.machineId) =
          StockOf(call.trace[1].machinesBefore, call.event.machineId)
             - call.event.payload

\* C6: unsubscribe(type, handler) on a type that has a list leaves in it
\* exactly the entries that are not the handler, in their order, whatever
\* the number of its occurrences; from then on the handler gets into a list
\* only by a subscribe of it under that type, and a publish invokes only
\* handlers that are in the list of the published type.
C6_UnsubscribeRemovesAll ==
    /\ [][(call'.op = "unsubscribe" /\ call'.type \in DOMAIN eventSubscribe) =>
            LET t == call'.type
                h == call'.handler
                Other(x) == x # h
            IN  /\ t \in DOMAIN eventSubscribe'
                /\ eventSubscribe'[t] = SelectSeq(eventSubscribe[t], Other)
                /\ h \notin Range(eventSubscribe'[t])
         ]_vars
    /\ [][\A t \in DOMAIN eventSubscribe', h \in Subscribers :
            (/\ h \in Range(eventSubscribe'[t])
             /\ (t \notin DOMAIN eventSubscribe \/ h \notin Range(eventSubscribe[t])))
            => \/ call'.op = "subscribe" /\ call'.type = t /\ call'.handler = h
               \/ call'.op = "register"
         ]_vars
    /\ [](call.op = "publish" =>
            \A i \in 1..Len(call.trace) :
                /\ call.type \in DOMAIN eventSubscribe
                /\ call.trace[i].subscriber \in Range(eventSubscribe[call.type]))

\* C6 witness: the "sale" list was [sale, refill] and unsubscribe(sale,
\* saleSubscriber) has left exactly [refill].
C6_Witness ==
    /\ call.op = "unsubscribe"
    /\ call.type = SALE
    /\ call.handler = saleSubscriber
    /\ SALE \in DOMAIN call.registryBefore
    /\ call.registryBefore[SALE] = << saleSubscriber, refillSubscriber >>
    /\ eventSubscribe[SALE] = << refillSubscriber >>

\* C7: unsubscribe(type, handler) changes the list of no other type and
\* adds or drops no key, also when the handler is in those other lists;
\* and a publish that ends without a fault has invoked every handler that
\* is in the list of its type.
C7_UnsubscribeOtherTypes ==
    /\ [][call'.op = "unsubscribe" =>
            /\ DOMAIN eventSubscribe' = DOMAIN eventSubscribe
            /\ \A t \in DOMAIN eventSubscribe \ {call'.type} :
                  eventSubscribe'[t] = eventSubscribe[t]
         ]_vars
    /\ [](call.op = "publish" /\ pc # "fault" /\ call.type \in DOMAIN eventSubscribe =>
            \A h \in Range(eventSubscribe[call.type]) :
                \E i \in 1..Len(call.trace) : call.trace[i].subscriber = h)

\* C7 witness: unsubscribe removed a handler from the list of one type
\* while the same handler is in the list of another type, and stays there.
C7_Witness ==
    /\ call.op = "unsubscribe"
    /\ call.type \in DOMAIN call.registryBefore
    /\ call.handler \in Range(call.registryBefore[call.type])
    /\ call.handler \notin Range(eventSubscribe[call.type])
    /\ \E t \in DOMAIN eventSubscribe \ {call.type} :
          /\ call.handler \in Range(call.registryBefore[t])
          /\ call.handler \in Range(eventSubscribe[t])

\* C8: subscribe(type, handler) makes the list of the type the previous
\* list (empty if there was none) followed by the handler, whether or not
\* the handler is already in it, changes no other list and does not fail;
\* a publish that ends without a fault has invoked each handler as many
\* times as it occurs in the list of the published type.
C8_SubscribeAppends ==
    /\ [][call'.op = "subscribe" =>
            LET t == call'.type
                old == IF t \in DOMAIN eventSubscribe THEN eventSubscribe[t] ELSE << >>
            IN  /\ DOMAIN eventSubscribe' = DOMAIN eventSubscribe \cup {t}
                /\ eventSubscribe'[t] = old \o << call'.handler >>
                /\ \A u \in DOMAIN eventSubscribe \ {t} :
                      eventSubscribe'[u] = eventSubscribe[u]
                /\ pc' = pc
                /\ console' = console
         ]_vars
    /\ [](call.op = "publish" /\ pc # "fault" /\ call.type \in DOMAIN eventSubscribe =>
            \A h \in Subscribers :
                Cardinality({i \in 1..Len(call.trace) : call.trace[i].subscriber = h})
                    = Occurrences(eventSubscribe[call.type], h))

\* C8 witness: subscribe under a tag that names a member every object
\* literal inherits has thrown, the registry keeping no key for the tag.
C8_Witness ==
    /\ call.op = "subscribe"
    /\ call.type \in ObjectPrototypeKeys
    /\ pc = "fault"
    /\ call.type \notin DOMAIN eventSubscribe
    /\ eventSubscribe = call.registryBefore

\* C8 on the tags that name no inherited member: subscribe appends, never
\* fails and touches no other list, and a fault-free publish invokes each
\* handler once per occurrence.
C8_OwnKeys ==
    /\ [][(call'.op = "subscribe" /\ call'.type \notin ObjectPrototypeKeys) =>
            LET t == call'.type
                old == IF t \in DOMAIN eventSubscribe THEN eventSubscribe[t] ELSE << >>
            IN  /\ DOMAIN eventSubscribe' = DOMAIN eventSubscribe \cup {t}
                /\ eventSubscribe'[t] = old \o << call'.handler >>
                /\ \A u \in DOMAIN eventSubscribe \ {t} :
                      eventSubscribe'[u] = eventSubscribe[u]
                /\ pc' = pc
                /\ console' = console
         ]_vars
    /\ [](call.op = "publish" /\ pc # "fault" /\ call.type \in DOMAIN eventSubscribe =>
            \A h \in Subscribers :
                Cardinality({i \in 1..Len(call.trace) : call.trace[i].subscriber = h})
                    = Occurrences(eventSubscribe[call.type], h))

\* A handler subscribed twice under one type was invoked twice by one
\* publish of that type.
C8_OwnKeysWitness ==
    /\ call.op = "publish"
    /\ pc # "fault"
    /\ call.type \in DOMAIN call.registryBefore
    /\ Occurrences(call.registryBefore[call.type], saleSubscriber) = 2
    /\ Cardinality({i \in 1..Len(call.trace) :
                       call.trace[i].subscriber = saleSubscriber}) = 2

\* The registry with each of the four handlers once under its own tag.
ReferenceRegistry ==
    [t \in EVENT_TYPE |->
        CASE t = SALE -> << saleSubscriber >>
          [] t = REFIL -> << refillSubscriber >>
          [] t = LOW_STOCK_WARNING -> << stockWarningSubscriber >>
          [] t = STOCK_LEVEL_OK -> << stockLevelOkSubscriber >>]

ReferenceDone ==
    /\ pc = "end"
    /\ call.op = "publish"
    /\ call.registryBefore = ReferenceRegistry
    /\ batch = << [type |-> SALE, machineId |-> "001", payload |-> 8],
                  [type |-> SALE, machineId |-> "001", payload |-> 1],
                  [type |-> SALE, machineId |-> "002", payload |-> 8],
                  [type |-> REFIL, machineId |-> "002", payload |-> 5],
                  [type |-> REFIL, machineId |-> "002", payload |-> 2] >>

\* C9: the reference scenario.  After the drain of [Sale(8,001),
\* Sale(1,001), Sale(8,002), Refill(5,002), Refill(2,002)] with the four
\* handlers each once under its own tag, the stocks are 001=1, 002=9,
\* 003=10, the queue is empty, and the events delivered after the batch are
\* LowStockWarning(2,001), LowStockWarning(2,002) and StockOk(7,002), each
\* received once by its handler.
C9_ReferenceScenario ==
    ReferenceDone =>
        /\ events = << >>
        /\ StockOf(machines, "001") = 1
        /\ StockOf(machines, "002") = 9
        /\ StockOf(machines, "003") = 10
        /\ delivered = batch \o
              << [type |-> LOW_STOCK_WARNING, machineId |-> "001", payload |-> 2],
                 [type |-> LOW_STOCK_WARNING, machineId |-> "002", payload |-> 2],
                 [type |-> STOCK_LEVEL_OK, machineId |-> "002", payload |-> 7] >>
        /\ LET IsWarning(line) == line.text = "[StockWarningSubscriber] Event receive"
               IsOk(line) == line.text = "[StockLevelOkSubscriber] Event receive"
           IN  /\ SelectSeq(console, IsWarning) =
                     << [text |-> "[StockWarningSubscriber] Event receive",
                         event |-> [type |-> LOW_STOCK_WARNING,
                                    machineId |-> "001", payload |-> 2]],
                        [text |-> "[StockWarningSubscriber] Event receive",
                         event |-> [type |-> LOW_STOCK_WARNING,
                                    machineId |-> "002", payload |-> 2]] >>
               /\ SelectSeq(console, IsOk) =
                     << [text |-> "[StockLevelOkSubscriber] Event receive",
                         event |-> [type |-> STOCK_LEVEL_OK,
                                    machineId |-> "002", payload |-> 7]] >>

\* C9 witness: the reference scenario has run to the end of its drain.
C9_Witness ==
    /\ ReferenceDone
    /\ Len(delivered) = 8
    /\ Len(BusLines(console)) = 8

\* C10: every publish of an event whose type has no handler, the key being
\* absent or its list emptied by unsubscribe, writes "No subscriber" and
\* returns normally.
C10_NoSubscriberSignalled ==
    [][(/\ call'.op = "publish"
        /\ \/ call'.type \notin DOMAIN eventSubscribe
           \/ eventSubscribe[call'.type] = << >>) =>
          /\ BusLines(SubSeq(console', Len(console) + 1, Len(console')))
                = << [text |-> "No subscriber", event |-> NoEvent] >>
          /\ pc' # "fault"
      ]_vars

\* C11: a publish of an event whose type has no handler (no key, or an
\* empty list) raises no fault, invokes no handler and leaves the rest of
\* the queue, every stock and the registry as they were; the drain loop
\* has consumed the event and goes on exactly when events remain.
C11_NoHandlerNoEffect ==
    [][(/\ call'.op = "publish"
        /\ \/ call'.type \notin DOMAIN eventSubscribe
           \/ eventSubscribe[call'.type] = << >>) =>
          /\ pc' # "fault"
          /\ call'.trace = << >>
          /\ SelectSeq(SubSeq(console', Len(console) + 1, Len(console')),
                       IsReceiveLine) = << >>
          /\ events' = Tail(events)
          /\ delivered' = Append(delivered, Head(events))
          /\ machines' = machines
          /\ eventSubscribe' = eventSubscribe
          /\ pc' = IF Tail(events) = << >> THEN "end" ELSE "loop"
      ]_vars

\* C11 witness: the publish of an event whose tag has no handler and names
\* a member every object literal inherits has thrown before any handler
\* ran, and the loop has stopped with events still queued.
C11_Witness ==
    /\ call.op = "publish"
    /\ call.type \notin DOMAIN call.registryBefore
    /\ call.type \in ObjectPrototypeKeys
    /\ call.trace = << >>
    /\ pc = "fault"
    /\ events # << >>

\* C11 on the tags that name no inherited member: the publish raises no
\* fault, invokes no handler, changes no stock, list or queued event, and
\* the loop goes on exactly when events remain.
C11_OwnKeys ==
    [][(/\ call'.op = "publish"
        /\ call'.type \notin ObjectPrototypeKeys
        /\ \/ call'.type \notin DOMAIN eventSubscribe
           \/ eventSubscribe[call'.type] = << >>) =>
          /\ pc' # "fault"
          /\ call'.trace = << >>
          /\ SelectSeq(SubSeq(console', Len(console) + 1, Len(console')),
                       IsReceiveLine) = << >>
          /\ events' = Tail(events)
          /\ delivered' = Append(delivered, Head(events))
          /\ machines' = machines
          /\ eventSubscribe' = eventSubscribe
          /\ pc' = IF Tail(events) = << >> THEN "end" ELSE "loop"
      ]_vars

\* An event of a type without handlers was consumed and the loop stands
\* before the next queued event.
C11_OwnKeysWitness ==
    /\ call.op = "publish"
    /\ call.type \notin ObjectPrototypeKeys
    /\ \/ call.type \notin DOMAIN call.registryBefore
       \/ call.registryBefore[call.type] = << >>
    /\ pc = "loop"
    /\ events # << >>

\* The line a Sale or Refill handler writes for an unknown machine.
IsUnknownMachineLine(line) ==
    line.text \in {"Unknown machine event occurs", "No machine found for the event"}

\* C12: a publish of a Sale or Refill event whose machineId is the id of no
\* machine ends without a fault whatever the handler list is: no
\* invocation throws, changes a stock or appends an event, every Sale or
\* Refill handler invoked writes its unknown-machine line, and the loop
\* goes on exactly when events remain.
C12_UnknownMachine ==
    (/\ call.op = "publish"
     /\ call.type \in {SALE, REFIL}
     /\ ~Known(machines, call.event.machineId)) =>
        LET T == call.trace
        IN  /\ pc = IF events = << >> THEN "end" ELSE "loop"
            /\ \A i \in 1..Len(T) :
                  /\ ~T[i].fault
                  /\ T[i].machinesAfter = T[i].machinesBefore
                  /\ T[i].holderAfter = T[i].holderBefore
                  /\ machines = T[i].machinesAfter
                  /\ events = T[i].holderAfter
            /\ call.type \in DOMAIN call.registryBefore =>
                  Len(T) = Len(call.registryBefore[call.type])
            /\ LET B == BusLines(console)
               IN  /\ Len(B) >= 2 * Len(T)
                   /\ \A i \in 1..Len(T) :
                         T[i].subscriber \in {saleSubscriber, refillSubscriber} =>
                             IsUnknownMachineLine(B[Len(B) - 2 * (Len(T) - i)])

\* C12 witness: a Sale event for an unknown machine went through the Sale
\* handler and the loop stands before the next queued event.
C12_Witness ==
    /\ call.op = "publish"
    /\ call.type = SALE
    /\ ~Known(machines, call.event.machineId)
    /\ Len(call.trace) >= 1
    /\ call.trace[1].subscriber = saleSubscriber
    /\ pc = "loop"
    /\ events # << >>

\* C13: a throw inside a handler leaves publish and the drain loop (a
\* publish that ends in a fault after invocations ends so by a throw of
\* the last of them, and an invocation that threw ends it so).  The
\* invocation that threw is the last one of the publish, the handlers
\* behind it in the list were not invoked, the program has stopped with
\* the undelivered events still in the queue, and the stocks and the queue
\* are as the handlers before the throwing one left them.
C13_FaultPropagates ==
    /\ call.op = "publish" =>
          \A i \in 1..Len(call.trace) :
              call.trace[i].fault => (pc = "fault" /\ i = Len(call.trace))
    /\ (pc = "fault" /\ call.op = "publish" /\ Len(call.trace) > 0) =>
          LET T == call.trace
              n == Len(T)
          IN  /\ T[n].fault
              /\ call.type \in DOMAIN call.registryBefore
              /\ n <= Len(call.registryBefore[call.type])
              /\ \A i \in 1..n : T[i].subscriber = call.registryBefore[call.type][i]
              /\ \A i \in 2..n : /\ T[i].machinesBefore = T[i - 1].machinesAfter
                                 /\ T[i].holderBefore = T[i - 1].holderAfter
              /\ machines = T[n].machinesBefore
              /\ events = T[n].holderBefore
              /\ Len(SelectSeq(console, IsReceiveLine)) >= n
              /\ ~ENABLED Next

\* C13 witness: the second of three handlers threw after the first had
\* sold from a machine; the third was not invoked and events remain.
C13_Witness ==
    /\ pc = "fault"
    /\ Len(call.trace) = 2
    /\ Len(call.registryBefore[call.type]) = 3
    /\ call.trace[1].machinesAfter # call.trace[1].machinesBefore
    /\ machines = call.trace[1].machinesAfter
    /\ events # << >>

\* The drain runs with the four handlers each once under its own tag.
ReferenceDrain ==
    /\ pc \in {"loop", "end", "fault"}
    /\ call.op \in {"assemble", "publish", "break"}
    /\ call.registryBefore = ReferenceRegistry

\* Events of the batch (not derived ones) still in the queue.
Pending(seq) == Cardinality({i \in 1..Len(seq) : ~IsDerived(seq[i])})

\* C14: with the four handlers each once under its own tag the drain of
\* every batch, the empty one included, comes to its end with the queue
\* empty.  No publish faults, a loop that has not ended can take its next
\* iteration, the number of publishes made plus the number still owed
\* (one per queued event and one more per queued batch event) never
\* exceeds twice the batch size, and at the end every delivered event, the
\* batch first and the derived events behind it, was received exactly once
\* by the handler of its type, in delivery order.
C14_DrainTerminates ==
    /\ [](ReferenceDrain =>
            /\ pc # "fault"
            /\ pc = "loop" => ENABLED Drain
            /\ Len(delivered) + Len(events) + Pending(events) <= 2 * Len(batch)
            /\ pc = "end" =>
                  /\ events = << >>
                  /\ IsPrefix(batch, delivered)
                  /\ \A i \in Len(batch) + 1..Len(delivered) : IsDerived(delivered[i])
                  /\ SelectSeq(console, IsReceiveLine) =
                        [i \in 1..Len(delivered) |->
                            [text |-> ReceiveText(ReferenceRegistry[delivered[i].type][1]),
                             event |-> delivered[i]]])
    /\ (pc = "loop" /\ eventSubscribe = ReferenceRegistry)
          ~> (pc = "end" /\ events = << >>)

\* C14 witness: under the reference registry the drain of a batch whose
\* first event has a tag without handler, the name of a member every
\* object literal inherits, has stopped in a fault at that event with the
\* rest of the batch still queued.
C14_Witness ==
    /\ ReferenceDrain
    /\ pc = "fault"
    /\ call.op = "publish"
    /\ call.type \in ObjectPrototypeKeys
    /\ call.trace = << >>
    /\ Len(delivered) = 1
    /\ events # << >>

\* No event of the batch has a tag that names an inherited member.
OwnKeysBatch == \A i \in 1..Len(batch) : batch[i].type \notin ObjectPrototypeKeys

\* C14 on the batches whose tags name no inherited member: every such
\* batch, unknown machines included, drains to its end with the queue
\* empty, within twice the batch size in publishes, each delivered event
\* received once by the handler of its type.
C14_OwnKeys ==
    /\ []((ReferenceDrain /\ OwnKeysBatch) =>
            /\ pc # "fault"
            /\ pc = "loop" => ENABLED Drain
            /\ Len(delivered) + Len(events) + Pending(events) <= 2 * Len(batch)
            /\ pc = "end" =>
                  /\ events = << >>
                  /\ IsPrefix(batch, delivered)
                  /\ \A i \in Len(batch) + 1..Len(delivered) : IsDerived(delivered[i])
                  /\ SelectSeq(console, IsReceiveLine) =
                        [i \in 1..Len(delivered) |->
                            [text |-> ReceiveText(ReferenceRegistry[delivered[i].type][1]),
                             event |-> delivered[i]]])
    /\ (pc = "loop" /\ eventSubscribe = ReferenceRegistry /\ OwnKeysBatch)
          ~> (pc = "end" /\ events = << >>)

\* A drain under the reference registry has ended with the queue empty
\* after twice as many publishes as the batch had events.
C14_OwnKeysWitness ==
    /\ ReferenceDrain
    /\ OwnKeysBatch
    /\ pc = "end"
    /\ batch # << >>
    /\ Len(delivered) = 2 * Len(batch)
    /\ events = << >>

\* The literal test batch has drained: five events and the three derived
\* from them.
C14_TestBatchWitness ==
    /\ ReferenceDrain
    /\ pc = "end"
    /\ batch = TestBatch
    /\ Len(delivered) = Len(batch) + 3
    /\ events = << >>


\* C15: an unsubscribe that finds nothing to remove, its type having no
\* key or its handler not being in the list of the type, does not fail and
\* leaves the registry as it was, key set and every list; so every later
\* publish goes to the handlers it would have gone to.
C15_UnsubscribeNotFound ==
    (/\ call.op = "unsubscribe"
     /\ \/ call.type \notin DOMAIN call.registryBefore
        \/ call.handler \notin Range(call.registryBefore[call.type])) =>
        /\ pc # "fault"
        /\ DOMAIN eventSubscribe = DOMAIN call.registryBefore
        /\ \A t \in DOMAIN eventSubscribe :
              eventSubscribe[t] = call.registryBefore[t]
        /\ \A e \in CallerEvents :
              LET st == [machines |-> machines, holder |-> << >>,
                         console |-> << >>, fault |-> FALSE]
                  Handlers(r) == [i \in 1..Len(r.trace) |-> r.trace[i].subscriber]
              IN  Handlers(publish(version, eventSubscribe, e, st))
                     = Handlers(publish(version, call.registryBefore, e, st))

\* C15 witness: unsubscribe for a never-subscribed tag that names a member
\* every object literal inherits has thrown, after other tags were
\* subscribed.
C15_Witness ==
    /\ call.op = "unsubscribe"
    /\ call.type \notin DOMAIN call.registryBefore
    /\ call.type \in ObjectPrototypeKeys
    /\ call.registryBefore # EmptyRegistry
    /\ pc = "fault"
    /\ eventSubscribe = call.registryBefore

\* C15 on the tags that name no inherited member: an unsubscribe that
\* finds nothing to remove does not fail and leaves the registry, and so
\* the handlers of every later publish, as they were.
C15_OwnKeys ==
    (/\ call.op = "unsubscribe"
     /\ call.type \notin ObjectPrototypeKeys
     /\ \/ call.type \notin DOMAIN call.registryBefore
        \/ call.handler \notin Range(call.registryBefore[call.type])) =>
        /\ pc # "fault"
        /\ DOMAIN eventSubscribe = DOMAIN call.registryBefore
        /\ \A t \in DOMAIN eventSubscribe :
              eventSubscribe[t] = call.registryBefore[t]
        /\ \A e \in CallerEvents :
              LET st == [machines |-> machines, holder |-> << >>,
                         console |-> << >>, fault |-> FALSE]
                  Handlers(r) == [i \in 1..Len(r.trace) |-> r.trace[i].subscriber]
              IN  Handlers(publish(version, eventSubscribe, e, st))
                     = Handlers(publish(version, call.registryBefore, e, st))

\* Unsubscribe of a handler that is not in the non-empty list of the type.
C15_OwnKeysWitness ==
    /\ call.op = "unsubscribe"
    /\ call.type \in DOMAIN call.registryBefore
    /\ call.registryBefore[call.type] # << >>
    /\ call.handler \notin Range(call.registryBefore[call.type])
    /\ eventSubscribe[call.type] = call.registryBefore[call.type]


RepositoryOps == {"isMachineExist", "getStockRemain", "reduceStock", "refillStock"}

\* C16: the contract of MachineRepository.  isMachineExist(id) answers true
\* exactly when a machine of the store has the id, and never throws;
\* getStockRemain, reduceStock and refillStock throw when no machine has
\* the id and then every stock is as before; with a known id they do not
\* throw, getStockRemain answers the stock and changes nothing, and
\* reduceStock and refillStock move the stock of that machine by the total
\* and leave the other machines alone.
C16_RepositoryContract ==
    call.op \in RepositoryOps =>
        LET v == call.trace[1]
            known == \E i \in 1..Len(v.machinesBefore) :
                         v.machinesBefore[i].id = v.machineId
            Others == {m \in Range(v.machinesBefore) : m.id # v.machineId}
        IN  /\ machines = v.machinesAfter
            /\ (pc = "fault") <=> v.fault
            /\ call.op = "isMachineExist" =>
                  /\ ~v.fault
                  /\ v.value <=> known
                  /\ v.machinesAfter = v.machinesBefore
            /\ (call.op # "isMachineExist" /\ ~known) =>
                  /\ v.fault
                  /\ v.machinesAfter = v.machinesBefore
            /\ (call.op # "isMachineExist" /\ known) =>
                  /\ ~v.fault
                  /\ Len(v.machinesAfter) = Len(v.machinesBefore)
                  /\ Others \subseteq Range(v.machinesAfter)
                  /\ StockOf(v.machinesAfter, v.machineId) =
                        StockOf(v.machinesBefore, v.machineId) +
                           CASE call.op = "getStockRemain" -> 0
                             [] call.op = "reduceStock" -> 0 - v.total
                             [] call.op = "refillStock" -> v.total
                  /\ call.op = "getStockRemain" =>
                        v.value = StockOf(v.machinesBefore, v.machineId)

\* C16 witness: after a call that changed a stock, getStockRemain with the
\* id of no machine has thrown and the stocks are as that call left them.
C16_Witness ==
    /\ call.op = "getStockRemain"
    /\ pc = "fault"
    /\ call.trace[1].machineId = "404"
    /\ machines # InitialMachines
    /\ machines = call.trace[1].machinesBefore


TerminalSubscribers == {stockWarningSubscriber, stockLevelOkSubscriber}

\* C17: the LowStockWarning handler and the StockOk handler are terminal.
\* An invocation of either does not throw and leaves every stock and the
\* queue as it found them; no publish changes the registry; and the
\* publish of a derived event leaves the stocks and the rest of the queue
\* as they were, so a derived event derives nothing.
C17_TerminalHandlers ==
    call.op = "publish" =>
        LET T == call.trace
        IN  /\ eventSubscribe = call.registryBefore
            /\ \A i \in 1..Len(T) :
                  T[i].subscriber \in TerminalSubscribers =>
                      /\ ~T[i].fault
                      /\ T[i].machinesAfter = T[i].machinesBefore
                      /\ T[i].holderAfter = T[i].holderBefore
            /\ (IsDerived(call.event) /\ Len(T) > 0) =>
                  /\ machines = T[1].machinesBefore
                  /\ events = T[1].holderBefore
                  /\ pc # "fault"

\* C17 witness: the warning handler was invoked with a LowStockWarning
\* while another event was waiting in the queue.
C17_Witness ==
    /\ call.op = "publish"
    /\ call.type = LOW_STOCK_WARNING
    /\ Len(call.trace) = 1
    /\ call.trace[1].subscriber = stockWarningSubscriber
    /\ call.trace[1].holderBefore # << >>
    /\ events = call.trace[1].holderBefore


\* C18: the queue discipline.  A handler invocation leaves the queue it
\* was given in place and puts at most one event behind it.  The queue
\* loses an event only by an iteration of the drain loop, which takes the
\* head and nothing else; the handlers of that iteration are given the
\* queue without the head, so the event they handle is not in it; and
\* outside the loop only the assembling of the batch writes the queue.
C18_QueueDiscipline ==
    /\ [](call.op = "publish" =>
            \A i \in 1..Len(call.trace) :
                LET v == call.trace[i]
                IN  /\ IsPrefix(v.holderBefore, v.holderAfter)
                    /\ Len(v.holderAfter) <= Len(v.holderBefore) + 1)
    /\ [][/\ events' # events => call'.op \in {"assemble", "publish"}
          /\ call'.op = "publish" =>
                LET T == call'.trace
                IN  /\ events # << >>
                    /\ call'.event = Head(events)
                    /\ IsPrefix(Tail(events), events')
                    /\ Len(T) = 0 => events' = Tail(events)
                    /\ Len(T) > 0 =>
                          /\ T[1].holderBefore = Tail(events)
                          /\ Len(T[1].holderBefore) = Len(events) - 1
                          /\ events' = T[Len(T)].holderAfter
                          /\ \A i \in 2..Len(T) :
                                T[i].holderBefore = T[i - 1].holderAfter
                          /\ Len(events') <= Len(Tail(events)) + Len(T)
         ]_vars

\* C18 witness: an invocation was given a queue that was not empty and
\* has put exactly one event behind it.
C18_Witness ==
    /\ call.op = "publish"
    /\ \E i \in 1..Len(call.trace) :
          LET v == call.trace[i]
          IN  /\ v.holderBefore # << >>
              /\ Len(v.holderAfter) = Len(v.holderBefore) + 1
              /\ SubSeq(v.holderAfter, 1, Len(v.holderBefore)) = v.holderBefore


\* C19: who changes a stock.  An invocation changes the stock of a machine
\* only when it is the Sale handler given a Sale event, or the Refill
\* handler given a Refill event, and the machine is the one the event
\* names; it adds, drops and renames no machine.  Between two states the
\* stocks differ only by a publish in which such an invocation changed
\* them: subscribe, unsubscribe, the assembling of the batch and a publish
\* without handlers leave every stock as it was.
C19_StockFrame ==
    /\ [](call.op = "publish" =>
            \A i \in 1..Len(call.trace) :
                LET v == call.trace[i]
                IN  /\ Len(v.machinesAfter) = Len(v.machinesBefore)
                    /\ \A k \in 1..Len(v.machinesBefore) :
                          /\ v.machinesAfter[k].id = v.machinesBefore[k].id
                          /\ v.machinesAfter[k].stockLevel # v.machinesBefore[k].stockLevel =>
                                /\ v.machinesBefore[k].id = v.event.machineId
                                /\ \/ v.subscriber = saleSubscriber /\ v.event.type = SALE
                                   \/ v.subscriber = refillSubscriber /\ v.event.type = REFIL)
    /\ [][/\ machines' # machines =>
                /\ call'.op = "publish"
                /\ \E i \in 1..Len(call'.trace) :
                      call'.trace[i].machinesAfter # call'.trace[i].machinesBefore
          /\ call'.op = "publish" =>
                LET T == call'.trace
                IN  /\ Len(T) = 0 => machines' = machines
                    /\ Len(T) > 0 =>
                          /\ T[1].machinesBefore = machines
                          /\ machines' = T[Len(T)].machinesAfter
                          /\ \A i \in 2..Len(T) :
                                T[i].machinesBefore = T[i - 1].machinesAfter
         ]_vars

\* C19 witness: an invocation has changed the stock of the machine its
\* event names, and the stocks of the two other machines are as before.
C19_Witness ==
    /\ call.op = "publish"
    /\ \E i \in 1..Len(call.trace) :
          LET v == call.trace[i]
          IN  \E k \in 1..Len(v.machinesBefore) :
                 /\ v.machinesBefore[k].id = v.event.machineId
                 /\ v.machinesAfter[k].stockLevel # v.machinesBefore[k].stockLevel
                 /\ \A j \in 1..Len(v.machinesBefore) :
                       j # k => v.machinesAfter[j] = v.machinesBefore[j]


MachineIds == {InitialMachines[k].id : k \in 1..Len(InitialMachines)}

\* Number of events of the type for the machine in seq.
Emitted(seq, type, machineId) ==
    Cardinality({k \in 1..Len(seq) :
                    seq[k].type = type /\ seq[k].machineId = machineId})

\* Warnings emitted for the machine minus stock-ok events emitted for it.
Balance(seq, machineId) ==
    Emitted(seq, LOW_STOCK_WARNING, machineId) - Emitted(seq, STOCK_LEVEL_OK, machineId)

\* What the balance of a machine has to be given the machines.
Below(ms, machineId) ==
    IF StockOf(ms, machineId) < LOW_STOCK_WARNING_THRESHOLD THEN 1 ELSE 0

\* C20: the cascade invariant.  The events emitted so far are those
\* delivered followed by those queued.  After every handler invocation,
\* and in every state of the program, each machine has one more warning
\* than stock-ok events emitted when its stock is below 3 and as many when
\* it is not; and in the order of emission, which is the order of
\* delivery, every initial stretch has a balance of 0 or 1, so warnings and
\* stock-ok events of one machine alternate and a warning comes first.
C20_CascadeBalance ==
    /\ \A M \in MachineIds :
          /\ Balance(delivered \o events, M) = Below(machines, M)
          /\ \A n \in 0..Len(delivered \o events) :
                Balance(SubSeq(delivered \o events, 1, n), M) \in {0, 1}
    /\ call.op = "publish" =>
          \A i \in 1..Len(call.trace), M \in MachineIds :
              Balance(delivered \o call.trace[i].holderAfter, M)
                  = Below(call.trace[i].machinesAfter, M)

\* C20 witness: with the Refill handler twice under its tag, a machine has
\* had a warning and then a stock-ok event delivered, and its stock is
\* above the threshold again.
C20_Witness ==
    /\ pc = "end"
    /\ call.op = "publish"
    /\ REFIL \in DOMAIN call.registryBefore
    /\ call.registryBefore[REFIL] = << refillSubscriber, refillSubscriber >>
    /\ Emitted(delivered, LOW_STOCK_WARNING, "001") = 1
    /\ Emitted(delivered, STOCK_LEVEL_OK, "001") = 1
    /\ StockOf(machines, "001") > LOW_STOCK_WARNING_THRESHOLD


\* The Sale handler is the one entry of the "sale" list and the Refill
\* handler the one entry of the "refil" list.
RegisteredOnce(registry) ==
    /\ SALE \in DOMAIN registry
    /\ REFIL \in DOMAIN registry
    /\ registry[SALE] = << saleSubscriber >>
    /\ registry[REFIL] = << refillSubscriber >>

\* Sum of the payloads of the events of the type for the machine in seq.
RECURSIVE Total(_, _, _)
Total(seq, type, machineId) ==
    IF seq = << >> THEN 0
    ELSE (IF Head(seq).type = type /\ Head(seq).machineId = machineId
          THEN Head(seq).payload ELSE 0)
         + Total(Tail(seq), type, machineId)

\* A drain that ran to its end with each of the two handlers once under
\* its tag.
ConservingDrainDone ==
    /\ pc = "end"
    /\ call.op \in {"publish", "break"}
    /\ RegisteredOnce(call.registryBefore)

\* C21: batch conservation.  After a complete drain with the Sale and the
\* Refill handler each registered once, the stock of every machine is the
\* initial 10 minus the Sale quantities plus the Refill amounts the batch
\* has for it; the sums do not depend on the order of the batch, events
\* for unknown machines and derived events add nothing, and the same
\* holds at every point of the drain for the batch events delivered so
\* far.
C21_BatchConservation ==
    /\ ConservingDrainDone =>
          /\ events = << >>
          /\ \A M \in MachineIds :
                StockOf(machines, M) =
                    InitialStockLevel - Total(batch, SALE, M) + Total(batch, REFIL, M)
    /\ (/\ pc \in {"loop", "end"}
        /\ call.op \in {"assemble", "publish", "break"}
        /\ RegisteredOnce(call.registryBefore)) =>
          \A M \in MachineIds :
              StockOf(machines, M) =
                  InitialStockLevel - Total(delivered, SALE, M)
                                    + Total(delivered, REFIL, M)

\* C21 witness: the batch [Sale(8,001), Refill(1,001)] was drained with
\* two derived events delivered behind it, and machine 001 stands at
\* 10 - 8 + 1 = 3, as it does for the batch in the other order, which
\* derives none.
C21_Witness ==
    /\ ConservingDrainDone
    /\ batch = << [type |-> SALE, machineId |-> "001", payload |-> 8],
                  [type |-> REFIL, machineId |-> "001", payload |-> 1] >>
    /\ Len(delivered) = 4
    /\ StockOf(machines, "001") = 3


\* The other of the two handler implementations.
OtherVersion(ver) == IF ver = "app" THEN "repository" ELSE "app"

\* Console lines with the wording of the unknown-machine line set aside:
\* the two implementations word it differently.
Normalised(lines) ==
    [k \in 1..Len(lines) |->
        IF IsUnknownMachineLine(lines[k])
        THEN [text |-> "unknown machine", event |-> lines[k].event]
        ELSE lines[k]]

\* C22: the two handler implementations do the same.  Whenever a publish
\* has gone to handlers, under either implementation, the other
\* implementation run on the same registry, event, machines and queue
\* gives the same invocations one by one (handler, stocks before and
\* after, queue before and after with the same derived events and
\* payloads, thrown or not), the same stocks, the same queue and the same
\* console lines up to the wording of the unknown-machine line.  The runs
\* of the two implementations start from the same state, so they go
\* through the same deliveries, derived events and stocks step after step.
C22_VersionsAgree ==
    (call.op = "publish" /\ Len(call.trace) > 0) =>
        LET T == call.trace
            o == publish(OtherVersion(version), call.registryBefore, call.event,
                         [machines |-> T[1].machinesBefore,
                          holder |-> T[1].holderBefore,
                          console |-> << >>, fault |-> FALSE])
            B == BusLines(console)
            n == Len(o.st.console)
        IN  /\ o.trace = T
            /\ o.st.machines = machines
            /\ o.st.holder = events
            /\ o.st.fault <=> (pc = "fault")
            /\ Len(B) >= n
            /\ Normalised(SubSeq(B, Len(B) - n + 1, Len(B))) = Normalised(o.st.console)

\* C22 witness: under the repository implementation, after an event for
\* an unknown machine was delivered, a sale from a known machine has
\* crossed the threshold and appended its warning.
C22_Witness ==
    /\ version = "repository"
    /\ call.op = "publish"
    /\ call.type = SALE
    /\ Len(call.trace) > 0
    /\ call.trace[1].subscriber = saleSubscriber
    /\ Len(call.trace[1].holderAfter) = Len(call.trace[1].holderBefore) + 1
    /\ \E k \in 1..Len(delivered) : ~Known(machines, delivered[k].machineId)

====
